---- MODULE Spec2Model ----
(***************************************************************************)
(* Model of log_parser.py: the line-oriented NTP log parser parse_ntp_log  *)
(* and the per-server aggregation calculate_statistics, as called by main. *)
(*                                                                         *)
(* Text is modelled as sequences of one-character strings, so that strip,  *)
(* split, startswith, the timestamp regular expression, int, float,        *)
(* strptime and strftime are computed on characters as the code computes   *)
(* them.  Floating point values are held as integers in thousandths.       *)
(***************************************************************************)
EXTENDS Integers, Sequences, FiniteSets, TLC

\* Bound on the number of lines read from the input file.
MaxLines == 3

\* Python's None, as the value of a name that may hold a datetime.
None == [none |-> TRUE]

----------------------------------------------------------------------------
(* Character and string helpers (Python str methods).                      *)

Whitespace == {" ", "\t", "\n"}

DigitChars == <<"0", "1", "2", "3", "4", "5", "6", "7", "8", "9">>

IsDigit(c) == \E i \in 1..10 : DigitChars[i] = c

DigitVal(c) == (CHOOSE i \in 1..10 : DigitChars[i] = c) - 1

AllDigits(s) == \A i \in 1..Len(s) : IsDigit(s[i])

RECURSIVE DecVal(_)
DecVal(s) == IF s = <<>> THEN 0
             ELSE 10 * DecVal(SubSeq(s, 1, Len(s) - 1)) + DigitVal(s[Len(s)])

SetMin(S) == CHOOSE x \in S : \A y \in S : x <= y

RECURSIVE lstrip(_)
lstrip(s) == IF s # <<>> /\ Head(s) \in Whitespace THEN lstrip(Tail(s)) ELSE s

RECURSIVE rstrip(_)
rstrip(s) == IF s # <<>> /\ s[Len(s)] \in Whitespace
             THEN rstrip(SubSeq(s, 1, Len(s) - 1)) ELSE s

\* str.strip()
strip(s) == rstrip(lstrip(s))

\* str.startswith(p)
startswith(s, p) == Len(s) >= Len(p) /\ SubSeq(s, 1, Len(p)) = p

RECURSIVE SplitAcc(_, _, _)
SplitAcc(s, cur, acc) ==
    IF s = <<>> THEN (IF cur = <<>> THEN acc ELSE Append(acc, cur))
    ELSE IF Head(s) \in Whitespace
         THEN SplitAcc(Tail(s), <<>>, IF cur = <<>> THEN acc ELSE Append(acc, cur))
         ELSE SplitAcc(Tail(s), Append(cur, Head(s)), acc)

\* str.split() with no argument: split on runs of whitespace.
split(s) == SplitAcc(s, <<>>, <<>>)

RECURSIVE SplitOnAcc(_, _, _, _)
SplitOnAcc(s, sep, cur, acc) ==
    IF s = <<>> THEN Append(acc, cur)
    ELSE IF Head(s) = sep
         THEN SplitOnAcc(Tail(s), sep, <<>>, Append(acc, cur))
         ELSE SplitOnAcc(Tail(s), sep, Append(cur, Head(s)), acc)

\* Fields of s separated by the single character sep (empty fields kept).
SplitOn(s, sep) == SplitOnAcc(s, sep, <<>>, <<>>)

\* str.replace(c, '')
RECURSIVE replace(_, _)
replace(s, c) == IF s = <<>> THEN <<>>
                 ELSE IF Head(s) = c THEN replace(Tail(s), c)
                 ELSE <<Head(s)>> \o replace(Tail(s), c)

\* c in s
contains(s, c) == \E i \in 1..Len(s) : s[i] = c

\* The sign and the unsigned part of a numeric token.
SignOf(tok) == IF tok # <<>> /\ Head(tok) = "-" THEN -1 ELSE 1

Unsigned(tok) == IF tok # <<>> /\ Head(tok) \in {"+", "-"} THEN Tail(tok) ELSE tok

\* int(tok): optional sign and decimal digits; anything else is ValueError.
\* (Digit-group underscores and non-ASCII digits do not occur in the input.)
int(tok) ==
    IF Unsigned(tok) # <<>> /\ AllDigits(Unsigned(tok))
    THEN [ok |-> TRUE, val |-> SignOf(tok) * DecVal(Unsigned(tok))]
    ELSE [ok |-> FALSE, val |-> 0]

\* The first three digits of a fraction, in thousandths.
Thousandths(fp) == DecVal(SubSeq(fp \o <<"0", "0", "0">>, 1, 3))

FloatOf(sign, ip, fp) ==
    IF AllDigits(ip) /\ AllDigits(fp) /\ Len(ip) + Len(fp) > 0
    THEN [ok |-> TRUE, val |-> sign * (1000 * DecVal(ip) + Thousandths(fp))]
    ELSE [ok |-> FALSE, val |-> 0]

FloatOfParts(sign, fs) ==
    IF Len(fs) = 1 THEN FloatOf(sign, fs[1], <<>>)
    ELSE IF Len(fs) = 2 THEN FloatOf(sign, fs[1], fs[2])
    ELSE [ok |-> FALSE, val |-> 0]

\* float(tok) for plain decimal notation, value in thousandths; anything
\* else is ValueError.  (Exponents, 'inf' and 'nan' do not occur in the
\* input; the input has at most three fraction digits.)
float(tok) == FloatOfParts(SignOf(tok), SplitOn(Unsigned(tok), "."))

----------------------------------------------------------------------------
(* Timestamp header: regular expression, strptime, strftime.               *)

Fence == <<"=", "=", "=">>

\* The positions in line where ' ===' closes a non-empty group.
FenceEnds(line) ==
    { j \in 6..(Len(line) - 3) : SubSeq(line, j, j + 3) = <<" ">> \o Fence }

MatchAt(line, ends) ==
    IF startswith(line, Fence \o <<" ">>) /\ ends # {}
    THEN [matched |-> TRUE, group1 |-> SubSeq(line, 5, SetMin(ends) - 1)]
    ELSE [matched |-> FALSE, group1 |-> <<>>]

\* re.match(r'=== (.+?) ===', line): anchored at the start, non-greedy group.
timestamp_match(line) == MatchAt(line, FenceEnds(line))

\* The zone names %Z accepts on every platform, as written in the input.
ZoneNames == { <<"U", "T", "C">>, <<"G", "M", "T">> }

IsLeap(y) == (y % 4 = 0 /\ y % 100 # 0) \/ y % 400 = 0

DaysInMonth(y, m) ==
    IF m = 2 THEN (IF IsLeap(y) THEN 29 ELSE 28)
    ELSE IF m \in {4, 6, 9, 11} THEN 30 ELSE 31

NumField(s, maxlen) == Len(s) \in 1..maxlen /\ AllDigits(s)

\* datetime(...): the range checks of the constructor.
DateTimeOf(dt) ==
    IF /\ dt.year >= 1
       /\ dt.month \in 1..12
       /\ dt.day \in 1..DaysInMonth(dt.year, dt.month)
       /\ dt.hour \in 0..23 /\ dt.minute \in 0..59 /\ dt.second \in 0..59
    THEN [ok |-> TRUE, val |-> dt]
    ELSE [ok |-> FALSE, val |-> None]

\* The directives %Y-%m-%d, %H:%M:%S and %Z on the three words of the text.
StrptimeFields(ds, ts, zone) ==
    IF /\ Len(ds) = 3 /\ Len(ts) = 3
       /\ Len(ds[1]) = 4 /\ AllDigits(ds[1])
       /\ NumField(ds[2], 2) /\ NumField(ds[3], 2)
       /\ NumField(ts[1], 2) /\ NumField(ts[2], 2) /\ NumField(ts[3], 2)
       /\ zone \in ZoneNames
    THEN DateTimeOf([year |-> DecVal(ds[1]), month |-> DecVal(ds[2]),
                     day |-> DecVal(ds[3]), hour |-> DecVal(ts[1]),
                     minute |-> DecVal(ts[2]), second |-> DecVal(ts[3])])
    ELSE [ok |-> FALSE, val |-> None]

StrptimeWords(text, ws) ==
    IF Len(ws) = 3 /\ text = strip(text)
    THEN StrptimeFields(SplitOn(ws[1], "-"), SplitOn(ws[2], ":"), ws[3])
    ELSE [ok |-> FALSE, val |-> None]

\* datetime.strptime(text, '%Y-%m-%d %H:%M:%S %Z'); ok = FALSE is ValueError.
strptime(text) == StrptimeWords(text, split(text))

RECURSIVE ZeroPad(_, _)
ZeroPad(n, width) ==
    IF width = 0 THEN <<>>
    ELSE Append(ZeroPad(n \div 10, width - 1), DigitChars[(n % 10) + 1])

\* dt.strftime('%Y-%m-%d %H:%M:%S')
strftime(dt) ==
    ZeroPad(dt.year, 4) \o <<"-">> \o ZeroPad(dt.month, 2) \o <<"-">>
        \o ZeroPad(dt.day, 2) \o <<" ">> \o ZeroPad(dt.hour, 2) \o <<":">>
        \o ZeroPad(dt.minute, 2) \o <<":">> \o ZeroPad(dt.second, 2)

----------------------------------------------------------------------------
(* Field decoding of one data line (body of the for loop).                 *)

StatusChars == {"*", "+", "-", " ", "x", "o", "#"}

STEP == <<".", "S", "T", "E", "P", ".">>
INIT == <<".", "I", "N", "I", "T", ".">>
RATE == <<".", "R", "A", "T", "E", ".">>

SentinelRefids == {STEP, INIT, RATE}

RemoteWord == <<"r", "e", "m", "o", "t", "e">>

\* Minimum number of parts a line needs to be decoded ("at least 9 fields").
MinParts == 9

\* Variant of on_timestamp: a later header does not replace a timestamp
\* that is already set.
on_timestamp_keeps_first(d, current_timestamp) ==
    IF d.ok
    THEN [brk |-> FALSE,
          ts |-> IF current_timestamp = None THEN d.val ELSE current_timestamp]
    ELSE [brk |-> TRUE, ts |-> current_timestamp]

\* Variant of on_timestamp: an undecodable header does not break the loop.
on_timestamp_no_break(d, current_timestamp) ==
    IF d.ok THEN [brk |-> FALSE, ts |-> d.val]
    ELSE [brk |-> FALSE, ts |-> current_timestamp]

\* Lines 44-48: d is the outcome of strptime; brk is the break statement.
on_timestamp(d, current_timestamp) ==
    IF d.ok THEN [brk |-> FALSE, ts |-> d.val]
    ELSE [brk |-> TRUE, ts |-> current_timestamp]

\* Lines 42-48: m is the outcome of re.match.
on_match(m, current_timestamp) ==
    IF m.matched THEN on_timestamp(strptime(m.group1), current_timestamp)
    ELSE [brk |-> FALSE, ts |-> current_timestamp]

\* Lines 41-48: the timestamp header check.
timestamp_step(line, current_timestamp) ==
    on_match(timestamp_match(line), current_timestamp)

\* Line 51: header lines and empty lines.
is_skipped(line) ==
    \/ line = <<>>
    \/ startswith(line, RemoteWord)
    \/ startswith(line, Fence)
    \/ startswith(line, <<"=">>)

\* Lines 62-66: the server status symbol.
strip_status(tok) ==
    IF tok # <<>> /\ Head(tok) \in StatusChars
    THEN [status |-> <<Head(tok)>>, remote |-> Tail(tok)]
    ELSE [status |-> <<>>, remote |-> tok]

\* Variant of is_sentinel: '.RATE.' is missing from the list.
is_sentinel_no_rate(refid) == refid \in {STEP, INIT}

\* Line 72.
is_sentinel(refid) == refid \in SentinelRefids

\* Lines 89 and 91: int() of the token without its unit letter, times the
\* unit; a ValueError of int() leaves the conversion (ok = FALSE).
scaled(r, unit) == [ok |-> r.ok, val |-> r.val * unit]

\* Lines 93-96: the bare integer, 0 on ValueError.
int_or_zero(r) == [ok |-> TRUE, val |-> IF r.ok THEN r.val ELSE 0]

\* Lines 86-96: the 'when' field in seconds.
convert_when(when) ==
    IF when = <<"-">> THEN [ok |-> TRUE, val |-> 0]
    ELSE IF contains(when, "m") THEN scaled(int(replace(when, "m")), 60)
    ELSE IF contains(when, "h") THEN scaled(int(replace(when, "h")), 3600)
    ELSE int_or_zero(int(when))

\* Variant of is_caught: the handler catches ValueError only.
is_caught_value_error_only(exc) == exc \in {"ValueError"}

\* Line 113: the exception types the handler catches.
is_caught(exc) == exc \in {"ValueError", "IndexError"}

\* An exception raised in the try block.
raised(e) == [exc |-> e, row |-> None]

\* Lines 98-112: the row, once every field is converted.
make_row(parts, sr, current_timestamp, st, poll, reach, delay, offset, jitter, when) ==
    IF current_timestamp = None THEN raised("AttributeError")
    ELSE [exc |-> "none",
          row |-> [timestamp     |-> strftime(current_timestamp),
                   timestamp_obj |-> current_timestamp,
                   status        |-> sr.status,
                   remote        |-> sr.remote,
                   refid         |-> parts[2],
                   stratum       |-> st.val,
                   type          |-> parts[4],
                   when_seconds  |-> when.val,
                   poll          |-> poll.val,
                   reach         |-> reach.val,
                   delay_ms      |-> delay.val,
                   offset_ms     |-> offset.val,
                   jitter_ms     |-> jitter.val]]

\* Lines 83-96: parts[9] exists; jitter and the 'when' field.
convert_last(parts, sr, current_timestamp, st, poll, reach, delay, offset, jitter, when) ==
    IF ~jitter.ok \/ ~when.ok THEN raised("ValueError")
    ELSE make_row(parts, sr, current_timestamp, st, poll, reach, delay, offset,
                  jitter, when)

\* Lines 76-83: the conversions up to the access to parts[9].
convert_first(parts, sr, current_timestamp, st, poll, reach, delay, offset) ==
    IF ~st.ok \/ ~poll.ok \/ ~reach.ok \/ ~delay.ok \/ ~offset.ok
    THEN raised("ValueError")
    ELSE IF Len(parts) < 10 THEN raised("IndexError")
    ELSE convert_last(parts, sr, current_timestamp, st, poll, reach, delay,
                      offset, float(parts[10]), convert_when(parts[5]))

\* Lines 75-112: the try block, statements in source order.  parts is
\* 1-indexed here, so parts[k] of the code is parts[k + 1]; sr is the
\* status and remote of lines 62-66.
try_block(parts, sr, current_timestamp) ==
    convert_first(parts, sr, current_timestamp, int(parts[3]), int(parts[6]),
                  int(parts[7]), float(parts[8]), float(parts[9]))

\* Variant of append_row: the row is inserted at the front.
append_row_at_front(rows, row) == <<row>> \o rows

\* Line 98: data_rows.append(row).
append_row(rows, row) == Append(rows, row)

\* How one iteration of the loop ends: ctl is "next" (continue or fall
\* through), "break", or "raise" (an exception the handler does not catch).
outcome(ctl, rows, ts, exc) == [ctl |-> ctl, rows |-> rows, ts |-> ts, exc |-> exc]

\* Lines 98-115: tb is the outcome of the try block.
after_try(data_rows, ts, tb) ==
    IF tb.exc = "none" THEN outcome("next", append_row(data_rows, tb.row), ts, "none")
    ELSE IF is_caught(tb.exc) THEN outcome("next", data_rows, ts, "none")
    ELSE outcome("raise", data_rows, ts, tb.exc)

\* Lines 57-115: the parts of a line that was not skipped.
decode_parts(parts, data_rows, ts) ==
    IF Len(parts) < MinParts THEN outcome("next", data_rows, ts, "none")
    ELSE IF is_sentinel(parts[2]) THEN outcome("next", data_rows, ts, "none")
    ELSE after_try(data_rows, ts, try_block(parts, strip_status(parts[1]), ts))

\* Lines 42-115: hs is the outcome of the timestamp header check.
after_header(line, data_rows, hs) ==
    IF hs.brk THEN outcome("break", data_rows, hs.ts, "none")
    ELSE IF is_skipped(line) THEN outcome("next", data_rows, hs.ts, "none")
    ELSE decode_parts(split(line), data_rows, hs.ts)

\* Lines 41-115 on the stripped line.
loop_line(line, data_rows, current_timestamp) ==
    after_header(line, data_rows, timestamp_step(line, current_timestamp))

\* Lines 38-115: one iteration of the loop over the file.
loop_body(raw, data_rows, current_timestamp) ==
    loop_line(strip(raw), data_rows, current_timestamp)

----------------------------------------------------------------------------
(* The input file: raw lines as the file iterator yields them.             *)

RECURSIVE Join(_)
Join(toks) == IF toks = <<>> THEN <<>>
              ELSE IF Len(toks) = 1 THEN toks[1]
              ELSE toks[1] \o <<" ">> \o Join(Tail(toks))

\* A raw line of the file: tokens separated by one space, newline at the end.
Raw(toks) == Join(toks) \o <<"\n">>

\* an empty line
Blank == <<"\n">>

\* the column-header row, indented as ntpq prints it
ColumnHeader ==
    <<" ", " ">> \o Raw(<<
        <<"r", "e", "m", "o", "t", "e">>, <<"r", "e", "f", "i", "d">>,
        <<"s", "t">>, <<"t">>, <<"w", "h", "e", "n">>,
        <<"p", "o", "l", "l">>, <<"r", "e", "a", "c", "h">>,
        <<"d", "e", "l", "a", "y">>, <<"o", "f", "f", "s", "e", "t">>,
        <<"j", "i", "t", "t", "e", "r">>>>)

\* a decorative separator row
Separator ==
    Raw(<<
        <<"=", "=", "=", "=", "=">>>>)

\* a timestamp header
Header1 ==
    Raw(<<
        <<"=", "=", "=">>,
        <<"2", "0", "2", "4", "-", "0", "6", "-", "0", "1">>,
        <<"1", "2", ":", "0", "0", ":", "0", "0">>, <<"U", "T", "C">>,
        <<"=", "=", "=">>>>)

\* a later timestamp header
Header2 ==
    Raw(<<
        <<"=", "=", "=">>,
        <<"2", "0", "2", "4", "-", "0", "6", "-", "0", "1">>,
        <<"1", "2", ":", "0", "5", ":", "0", "0">>, <<"G", "M", "T">>,
        <<"=", "=", "=">>>>)

\* a header whose text is not a date-time
BadHeader ==
    Raw(<<
        <<"=", "=", "=">>, <<"b", "a", "d">>, <<"=", "=", "=">>>>)

\* a header with a day that does not exist
BadDateHeader ==
    Raw(<<
        <<"=", "=", "=">>,
        <<"2", "0", "2", "3", "-", "0", "2", "-", "2", "9">>,
        <<"1", "2", ":", "0", "0", ":", "0", "0">>, <<"U", "T", "C">>,
        <<"=", "=", "=">>>>)

\* a fenced line whose second token is a sentinel
StepHeader ==
    Raw(<<
        <<"=", "=", "=">>, <<".", "S", "T", "E", "P", ".">>,
        <<"=", "=", "=">>>>)

\* a selected peer, since_last in seconds
Data1 ==
    Raw(<<
        <<"*", "a", "1">>, <<".", "G", ".">>, <<"1">>, <<"u">>, <<"4", "5">>,
        <<"6", "4">>, <<"3", "7", "7">>, <<"1", "2", ".", "3", "4", "5">>,
        <<"-", "0", ".", "0", "6", "7">>, <<"1", ".", "2", "3", "4">>>>)

\* no status prefix, since_last in minutes
Data2 ==
    Raw(<<
        <<"b", "2">>, <<".", "P", ".">>, <<"2">>, <<"u">>, <<"5", "m">>,
        <<"6", "4">>, <<"3", "7", "7">>, <<"1", "0", ".", "0">>,
        <<"0", ".", "5">>, <<"2", ".", "0">>>>)

\* since_last in hours, same peer as Data1
Data3 ==
    Raw(<<
        <<"+", "a", "1">>, <<".", "G", ".">>, <<"1">>, <<"u">>, <<"2", "h">>,
        <<"1", "2", "8">>, <<"3", "7", "7">>, <<"8">>, <<"1">>, <<"3">>>>)

\* since_last is '-'
Data4 ==
    Raw(<<
        <<"-", "c", "3">>, <<".", "G", ".">>, <<"1">>, <<"u">>, <<"-">>,
        <<"6", "4">>, <<"0">>, <<"0", ".", "0", "0", "0">>,
        <<"0", ".", "0", "0", "0">>, <<"0", ".", "0", "0", "0">>>>)

\* since_last with a unit letter and a non-numeric remainder
DataAbcm ==
    Raw(<<
        <<"a", "1">>, <<".", "G", ".">>, <<"1">>, <<"u">>,
        <<"a", "b", "c", "m">>, <<"6", "4">>, <<"3", "7", "7">>,
        <<"1", "2", ".", "3", "4", "5">>, <<"-", "0", ".", "0", "6", "7">>,
        <<"1", ".", "2", "3", "4">>>>)

\* since_last without unit letter, not a number
DataAbc ==
    Raw(<<
        <<"a", "1">>, <<".", "G", ".">>, <<"1">>, <<"u">>, <<"a", "b", "c">>,
        <<"6", "4">>, <<"3", "7", "7">>, <<"1", "2", ".", "3", "4", "5">>,
        <<"-", "0", ".", "0", "6", "7">>, <<"1", ".", "2", "3", "4">>>>)

\* token 0 is only a status character
DataStar ==
    Raw(<<
        <<"*">>, <<".", "G", ".">>, <<"1">>, <<"u">>, <<"4", "5">>,
        <<"6", "4">>, <<"3", "7", "7">>, <<"1", "2", ".", "3", "4", "5">>,
        <<"-", "0", ".", "0", "6", "7">>, <<"1", ".", "2", "3", "4">>>>)

\* token 0 starts with two status characters
DataStarPlus ==
    Raw(<<
        <<"*", "+", "a">>, <<".", "G", ".">>, <<"1">>, <<"u">>, <<"4", "5">>,
        <<"6", "4">>, <<"3", "7", "7">>, <<"1", "2", ".", "3", "4", "5">>,
        <<"-", "0", ".", "0", "6", "7">>, <<"1", ".", "2", "3", "4">>>>)

\* a hostname that begins with the letters 'remote'
DataRemoteHost ==
    Raw(<<
        <<"r", "e", "m", "o", "t", "e", "1">>, <<".", "G", ".">>, <<"1">>,
        <<"u">>, <<"4", "5">>, <<"6", "4">>, <<"3", "7", "7">>,
        <<"1", "2", ".", "3", "4", "5">>, <<"-", "0", ".", "0", "6", "7">>,
        <<"1", ".", "2", "3", "4">>>>)

\* nine tokens: passes the 'at least 9 fields' check
Nine ==
    Raw(<<
        <<"a", "1">>, <<".", "G", ".">>, <<"1">>, <<"u">>, <<"4", "5">>,
        <<"6", "4">>, <<"3", "7", "7">>, <<"1", "2", ".", "3", "4", "5">>,
        <<"-", "0", ".", "0", "6", "7">>>>)

\* three tokens
Short ==
    Raw(<<
        <<"a", "1">>, <<".", "G", ".">>, <<"1">>>>)

\* sentinel reference id, other tokens valid
SentinelStep ==
    Raw(<<
        <<"a", "1">>, <<".", "S", "T", "E", "P", ".">>, <<"1", "6">>,
        <<"u">>, <<"-">>, <<"6", "4">>, <<"0">>, <<"0", ".", "0", "0", "0">>,
        <<"0", ".", "0", "0", "0">>, <<"0", ".", "0", "0", "0">>>>)

\* sentinel reference id, other tokens malformed, nine tokens
SentinelInit ==
    Raw(<<
        <<"a", "1">>, <<".", "I", "N", "I", "T", ".">>, <<"x">>, <<"u">>,
        <<"-">>, <<"6", "4">>, <<"0">>, <<"b", "a", "d">>, <<"0", ".", "0">>>>)

\* sentinel reference id .RATE.
SentinelRate ==
    Raw(<<
        <<"b", "2">>, <<".", "R", "A", "T", "E", ".">>, <<"1", "6">>,
        <<"u">>, <<"-">>, <<"6", "4">>, <<"0">>, <<"0", ".", "0", "0", "0">>,
        <<"0", ".", "0", "0", "0">>, <<"0", ".", "0", "0", "0">>>>)

\* stratum is not an integer
BadStratum ==
    Raw(<<
        <<"a", "1">>, <<".", "G", ".">>, <<"x">>, <<"u">>, <<"4", "5">>,
        <<"6", "4">>, <<"3", "7", "7">>, <<"1", "2", ".", "3", "4", "5">>,
        <<"-", "0", ".", "0", "6", "7">>, <<"1", ".", "2", "3", "4">>>>)

\* delay is not a decimal number
BadDelay ==
    Raw(<<
        <<"a", "1">>, <<".", "G", ".">>, <<"1">>, <<"u">>, <<"4", "5">>,
        <<"6", "4">>, <<"3", "7", "7">>, <<"1", ".", "2", ".", "3">>,
        <<"-", "0", ".", "0", "6", "7">>, <<"1", ".", "2", "3", "4">>>>)

\* The lines an input file is made of.
InputLines ==
    {Blank, ColumnHeader, Separator, Header1,
     Header2, BadHeader, BadDateHeader, StepHeader,
     Data1, Data2, Data3, Data4,
     DataAbcm, DataAbc, DataStar, DataStarPlus,
     DataRemoteHost, Nine, Short, SentinelStep,
     SentinelInit, SentinelRate, BadStratum, BadDelay}

----------------------------------------------------------------------------
(* calculate_statistics.                                                   *)

\* Characters in code-point order, for the string comparison of sorted().
CodePointOrder ==
    <<" ", "#", "*", "+", "-", ".",
      "0", "1", "2", "3", "4", "5", "6", "7", "8", "9", "=",
      "a", "b", "c", "e", "m", "o", "r", "t", "x">>

ord(c) == CHOOSE i \in 1..Len(CodePointOrder) : CodePointOrder[i] = c

\* a < b for Python strings.
RECURSIVE str_less(_, _)
str_less(a, b) ==
    IF b = <<>> THEN FALSE
    ELSE IF a = <<>> THEN TRUE
    ELSE IF Head(a) = Head(b) THEN str_less(Tail(a), Tail(b))
    ELSE ord(Head(a)) < ord(Head(b))

\* sorted(S) for a set of strings.
RECURSIVE sorted(_)
sorted(S) ==
    IF S = {} THEN <<>>
    ELSE LET least == CHOOSE x \in S : \A y \in S \ {x} : str_less(x, y)
         IN  <<least>> \o sorted(S \ {least})

RECURSIVE Sum(_)
Sum(xs) == IF xs = <<>> THEN 0 ELSE Head(xs) + Sum(Tail(xs))

RECURSIVE SumSq(_)
SumSq(xs) == IF xs = <<>> THEN 0 ELSE Head(xs) * Head(xs) + SumSq(Tail(xs))

RECURSIVE isqrt(_)
isqrt(n) == IF n < 2 THEN n
            ELSE LET s == 2 * isqrt(n \div 4)
                 IN  IF (s + 1) * (s + 1) > n THEN s ELSE s + 1

min(xs) == CHOOSE x \in {xs[i] : i \in 1..Len(xs)} :
               \A i \in 1..Len(xs) : x <= xs[i]

max(xs) == CHOOSE x \in {xs[i] : i \in 1..Len(xs)} :
               \A i \in 1..Len(xs) : x >= xs[i]

\* statistics.mean, in thousandths.
mean(xs) == Sum(xs) \div Len(xs)

\* The sample variance from the number, the sum and the sum of squares.
variance(n, sum, sumsq) == (n * sumsq - sum * sum) \div (n * (n - 1))

\* statistics.stdev (sample standard deviation), in thousandths.
stdev(xs) == isqrt(variance(Len(xs), Sum(xs), SumSq(xs)))

\* Lines 241-260: the four statistics of one list of samples.
field_stats(xs) ==
    [min |-> min(xs), max |-> max(xs), mean |-> mean(xs),
     stdev |-> IF Len(xs) > 1 THEN stdev(xs) ELSE 0]

\* The format specifiers of lines 266-274, in the order they are evaluated.
Spec4f == <<".", "4", "f">>

\* Line 274: the specifier holds a cent sign between '.' and the precision.
SpecLine274 == <<".", "cent", "4", "f">>

ReportSpecs ==
    <<Spec4f, Spec4f, Spec4f, Spec4f, Spec4f, Spec4f, Spec4f, SpecLine274>>

\* format(float, spec) for a '.<precision>f' specifier; FALSE is the
\* ValueError of an invalid specifier.
format_ok(spec) ==
    /\ Len(spec) >= 3
    /\ spec[1] = "." /\ spec[Len(spec)] = "f"
    /\ AllDigits(SubSeq(spec, 2, Len(spec) - 1))

\* Lines 262-274: the printed report of one server completes.
print_report(specs) == \A i \in 1..Len(specs) : format_ok(specs[i])

\* Lines 225-229 for one server: the samples of one column, in row order.
RECURSIVE samples(_, _, _)
samples(rows, server, col) ==
    IF rows = <<>> THEN <<>>
    ELSE IF Head(rows).remote = server
         THEN <<Head(rows)[col]>> \o samples(Tail(rows), server, col)
         ELSE samples(Tail(rows), server, col)

\* Lines 276-292: the row appended for one server.
stats_row(server, n, d, o, j) ==
    [IP_Hostname |-> server,
     Data_Points |-> n,
     Delay_Min |-> d.min, Delay_Max |-> d.max,
     Delay_Mean |-> d.mean, Delay_StdDev |-> d.stdev,
     Offset_Min |-> o.min, Offset_Max |-> o.max,
     Offset_Mean |-> o.mean, Offset_StdDev |-> o.stdev,
     Jitter_Min |-> j.min, Jitter_Max |-> j.max,
     Jitter_Mean |-> j.mean, Jitter_StdDev |-> j.stdev]

\* Lines 238-292 for one server.
server_row(rows, server) ==
    stats_row(server, Len(samples(rows, server, "delay_ms")),
              field_stats(samples(rows, server, "delay_ms")),
              field_stats(samples(rows, server, "offset_ms")),
              field_stats(samples(rows, server, "jitter_ms")))

\* Lines 237-292: the loop over the sorted servers; an exception of the
\* report leaves the function before the row is appended.
RECURSIVE stats_loop(_, _, _)
stats_loop(servers, rows, acc) ==
    IF servers = <<>> THEN [exc |-> "none", stats |-> acc]
    ELSE IF ~print_report(ReportSpecs) THEN [exc |-> "ValueError", stats |-> <<>>]
    ELSE stats_loop(Tail(servers), rows, Append(acc, server_row(rows, Head(servers))))

calculate_statistics(data_rows) ==
    stats_loop(sorted({data_rows[i].remote : i \in 1..Len(data_rows)}),
               data_rows, <<>>)

----------------------------------------------------------------------------
(* The program: main() calls parse_ntp_log, then calculate_statistics.     *)

VARIABLES
    pc,                 \* "reading", "returned", "raised", "stats_returned", "stats_raised"
    lines,              \* the raw lines read from the file so far
    data_rows,          \* parse_ntp_log: the list of rows
    current_timestamp,  \* parse_ntp_log: the timestamp context
    origin,             \* for each row, the number of the line it was decoded from
    result,             \* the value parse_ntp_log returned (set when pc leaves "reading")
    count,              \* the count printed at line 117 (set with result)
    exception,          \* the exception that left the running function, or "none"
    stats               \* the value calculate_statistics returned (set at "stats_returned")

vars == <<pc, lines, data_rows, current_timestamp, origin, result, count,
          exception, stats>>

Init ==
    /\ pc = "reading"
    /\ lines = <<>>
    /\ data_rows = <<>>
    /\ current_timestamp = None
    /\ origin = <<>>
    /\ result = <<>>
    /\ count = 0
    /\ exception = "none"
    /\ stats = <<>>

\* The effect of one iteration that ended as r says; a break runs on to
\* the print and the return of lines 117-118.
Iterate(raw, r) ==
    /\ lines' = Append(lines, raw)
    /\ data_rows' = r.rows
    /\ current_timestamp' = r.ts
    /\ origin' = IF Len(r.rows) > Len(data_rows)
                 THEN Append(origin, Len(lines) + 1) ELSE origin
    /\ pc' = CASE r.ctl = "next"  -> "reading"
               [] r.ctl = "break" -> "returned"
               [] r.ctl = "raise" -> "raised"
    /\ result' = IF r.ctl = "break" THEN r.rows ELSE result
    /\ count' = IF r.ctl = "break" THEN Len(r.rows) ELSE count
    /\ exception' = r.exc
    /\ UNCHANGED stats

\* One iteration of the for loop of parse_ntp_log on the next line of the
\* file.
ReadLine(raw) ==
    /\ pc = "reading"
    /\ Len(lines) < MaxLines
    /\ Iterate(raw, loop_body(raw, data_rows, current_timestamp))

\* The file is exhausted: lines 117-118.
EndOfFile ==
    /\ pc = "reading"
    /\ pc' = "returned"
    /\ result' = data_rows
    /\ count' = Len(data_rows)
    /\ UNCHANGED <<lines, data_rows, current_timestamp, origin, exception, stats>>

\* The call of line 325 ended as s says.
StatsDone(s) ==
    /\ pc' = IF s.exc = "none" THEN "stats_returned" ELSE "stats_raised"
    /\ stats' = s.stats
    /\ exception' = s.exc
    /\ UNCHANGED <<lines, data_rows, current_timestamp, origin, result, count>>

\* main(), line 325: calculate_statistics on the returned rows.
CalculateStatistics ==
    /\ pc = "returned"
    /\ StatsDone(calculate_statistics(result))

Next ==
    \/ \E raw \in InputLines : ReadLine(raw)
    \/ EndOfFile
    \/ CalculateStatistics

Spec == Init /\ [][Next]_vars

----------------------------------------------------------------------------
(* Vocabulary of the properties: what a line is, independent of the loop.  *)

Tokens(raw) == split(strip(raw))

IsHeaderLine(raw) == timestamp_match(strip(raw)).matched

HeaderText(raw) == timestamp_match(strip(raw)).group1

\* A timestamp header whose interior text decodes as a date-time.
IsValidHeader(raw) == IsHeaderLine(raw) /\ strptime(HeaderText(raw)).ok

\* A timestamp header whose interior text cannot be decoded.
IsBadHeader(raw) == IsHeaderLine(raw) /\ ~strptime(HeaderText(raw)).ok

HeaderValue(raw) == strptime(HeaderText(raw)).val

IsBlank(raw) == strip(raw) = <<>>

IsColumnHeader(raw) == Tokens(raw) # <<>> /\ Tokens(raw)[1] = RemoteWord

IsSeparator(raw) ==
    /\ strip(raw) # <<>>
    /\ \A i \in 1..Len(strip(raw)) : strip(raw)[i] = "="

\* Token 1 of the line is one of the sentinel reference ids.
HasSentinelRefid(raw) ==
    Len(Tokens(raw)) >= 2 /\ Tokens(raw)[2] \in {STEP, INIT, RATE}

IsShort(raw) ==
    ~IsHeaderLine(raw) /\ Len(Tokens(raw)) \in 1..9

\* A since_last token: '-', seconds, minutes with 'm', hours with 'h'.
IsDuration(t) ==
    \/ t = <<"-">>
    \/ t # <<>> /\ AllDigits(t)
    \/ /\ Len(t) >= 2
       /\ t[Len(t)] \in {"m", "h"}
       /\ AllDigits(SubSeq(t, 1, Len(t) - 1))

DurationSeconds(t) ==
    IF t = <<"-">> THEN 0
    ELSE IF t[Len(t)] = "m" THEN 60 * DecVal(SubSeq(t, 1, Len(t) - 1))
    ELSE IF t[Len(t)] = "h" THEN 3600 * DecVal(SubSeq(t, 1, Len(t) - 1))
    ELSE DecVal(t)

HasPrefix(t) == Head(t) \in {"*", "+", "-", " ", "x", "o", "#"}

PeerOf(t) == IF HasPrefix(t) THEN Tail(t) ELSE t

StatusOf(t) == IF HasPrefix(t) THEN <<Head(t)>> ELSE <<>>

\* Token 0 is a peer identifier, with or without one status prefix.
IsPeerToken(t) == PeerOf(t) # <<>> /\ ~HasPrefix(PeerOf(t))

NumbersWellFormed(t) ==
    /\ int(t[3]).ok /\ int(t[6]).ok /\ int(t[7]).ok
    /\ float(t[8]).ok /\ float(t[9]).ok /\ float(t[10]).ok

\* Ten tokens, all well formed but possibly the since_last token.
IsDataLineButWhen(raw) ==
    LET t == Tokens(raw)
    IN  /\ Len(t) = 10
        /\ IsPeerToken(t[1])
        /\ t[2] \notin {STEP, INIT, RATE}
        /\ NumbersWellFormed(t)

\* A data line of 10 well-formed tokens with a non-sentinel reference id.
IsDataLine(raw) == IsDataLineButWhen(raw) /\ IsDuration(Tokens(raw)[5])

\* Ten or more tokens, one of the numeric fields is not a number.
IsNumericallyMalformed(raw) ==
    /\ ~IsHeaderLine(raw)
    /\ Len(Tokens(raw)) >= 10
    /\ ~NumbersWellFormed(Tokens(raw))

\* The Record a data line stands for under the timestamp ts.
RecordOf(raw, ts) ==
    LET t == Tokens(raw)
    IN  [timestamp     |-> strftime(ts),
         timestamp_obj |-> ts,
         status        |-> StatusOf(t[1]),
         remote        |-> PeerOf(t[1]),
         refid         |-> t[2],
         stratum       |-> int(t[3]).val,
         type          |-> t[4],
         when_seconds  |-> IF IsDuration(t[5]) THEN DurationSeconds(t[5]) ELSE 0,
         poll          |-> int(t[6]).val,
         reach         |-> int(t[7]).val,
         delay_ms      |-> float(t[8]).val,
         offset_ms     |-> float(t[9]).val,
         jitter_ms     |-> float(t[10]).val]

RecordKeys ==
    {"timestamp", "timestamp_obj", "status", "remote", "refid", "stratum",
     "type", "when_seconds", "poll", "reach", "delay_ms", "offset_ms",
     "jitter_ms"}

\* This step is one iteration of the loop; NewLine is the line it processed.
ReadStep == pc = "reading" /\ Len(lines') = Len(lines) + 1

NewLine == lines'[Len(lines')]

LastLine == lines[Len(lines)]

SetMax(S) == CHOOSE x \in S : \A y \in S : x >= y

Returned == pc \in {"returned", "stats_returned", "stats_raised"}

----------------------------------------------------------------------------
(* Properties.                                                             *)

\* C1: a data line of 10 well-formed tokens with a non-sentinel reference
\* id that is read before any timestamp header has been decoded is skipped:
\* it adds no Record, no exception leaves parse_ntp_log, and the loop goes
\* on to the following lines.
C1_SkippedBeforeTimestamp ==
    [][ (ReadStep /\ current_timestamp = None /\ IsDataLine(NewLine))
        => (data_rows' = data_rows /\ exception' = "none" /\ pc' = "reading") ]_vars

\* C2: every Record of the returned sequence has a timestamp that is not
\* None and equals the value decoded from the latest successfully decoded
\* timestamp header among the lines before the Record's own line.
C2_TimestampOfLatestHeader ==
    pc = "returned" =>
        \A i \in 1..Len(result) :
            LET before == {j \in 1..(origin[i] - 1) : IsValidHeader(lines[j])}
            IN  /\ result[i].timestamp_obj # None
                /\ before # {}
                /\ result[i].timestamp_obj = HeaderValue(lines[SetMax(before)])
                /\ result[i].timestamp = strftime(HeaderValue(lines[SetMax(before)]))

\* A Record was returned whose line follows two headers of different values.
C2_Witness ==
    /\ pc = "returned"
    /\ \E i \in 1..Len(result) :
          \E j, k \in 1..(origin[i] - 1) :
              /\ j < k
              /\ IsValidHeader(lines[j]) /\ IsValidHeader(lines[k])
              /\ HeaderValue(lines[j]) # HeaderValue(lines[k])

\* C3: on a timestamp header whose text cannot be decoded the parser stops
\* at once and returns exactly the Records accumulated before that header,
\* in order; once it has returned, no further line is read and the returned
\* sequence does not change.
C3_BadHeaderReturnsAccumulated ==
    [][ /\ (ReadStep /\ IsBadHeader(NewLine))
            => (pc' = "returned" /\ result' = data_rows /\ exception' = "none")
        /\ Returned => (lines' = lines /\ result' = result /\ Returned')
      ]_vars

\* The parser stopped on a bad header after a timestamp had been
\* established and a Record accumulated.
C3_Witness ==
    /\ pc = "returned"
    /\ lines # <<>> /\ IsBadHeader(LastLine)
    /\ current_timestamp # None
    /\ Len(result) >= 1

\* C4: a data line that is valid but for a since_last token that is not a
\* duration (such as 'abcm') is not dropped: its Record is appended with
\* since_last_seconds 0.
C4_BadDurationBecomesZero ==
    [][ (/\ ReadStep /\ current_timestamp # None
         /\ IsDataLineButWhen(NewLine) /\ ~IsDuration(Tokens(NewLine)[5]))
        => /\ data_rows' = Append(data_rows, RecordOf(NewLine, current_timestamp))
           /\ data_rows'[Len(data_rows')].when_seconds = 0 ]_vars

\* C5: in every Record the parser emits, 'remote' is not the empty string
\* and does not begin with a status-prefix character.
C5_PeerIdentifierStripped ==
    \A i \in 1..Len(data_rows) :
        /\ data_rows[i].remote # <<>>
        /\ Head(data_rows[i].remote) \notin {"*", "+", "-", " ", "x", "o", "#"}

\* C6: once a timestamp header has been decoded, every data line of 10
\* well-formed tokens appends exactly one Record, whose fields are the
\* tokens after type coercion, prefix stripping and duration normalization,
\* whatever the peer identifier is.
C6_OneRecordPerDataLine ==
    [][ (ReadStep /\ current_timestamp # None /\ IsDataLine(NewLine))
        => /\ data_rows' = Append(data_rows, RecordOf(NewLine, current_timestamp))
           /\ pc' = "reading" /\ exception' = "none" ]_vars

\* C7 as stated: every line with fewer than 10 whitespace-separated tokens
\* adds no Record and the parser continues with the next line without a
\* fatal error, with or without a timestamp.
C7_Original ==
    [][ (ReadStep /\ Len(Tokens(NewLine)) < 10)
        => (data_rows' = data_rows /\ pc' = "reading" /\ exception' = "none") ]_vars

\* C7 amended: every line with fewer than 10 whitespace-separated tokens
\* adds no Record and raises no exception, with or without a timestamp; the
\* parser continues with the next line unless the line is a timestamp
\* header whose text cannot be decoded, on which it stops and returns.
C7_ShortLineNoRecord ==
    [][ (ReadStep /\ Len(Tokens(NewLine)) < 10)
        => /\ data_rows' = data_rows
           /\ exception' = "none"
           /\ pc' = IF IsBadHeader(NewLine) THEN "returned" ELSE "reading" ]_vars

\* A line of exactly 9 tokens with a non-sentinel reference id and valid
\* numbers was read after a timestamp, and the parser is still reading.
C7_Witness ==
    /\ pc = "reading"
    /\ lines # <<>>
    /\ Len(Tokens(LastLine)) = 9
    /\ ~HasSentinelRefid(LastLine)
    /\ int(Tokens(LastLine)[3]).ok
    /\ current_timestamp # None

PeersOf(rows) == {rows[i].remote : i \in 1..Len(rows)}

CountOf(rows, peer) == Cardinality({i \in 1..Len(rows) : rows[i].remote = peer})

\* C9: for a non-empty Record sequence calculate_statistics returns one row
\* per distinct peer, in ascending order of peer identifier, Data_Points
\* being the number of Records of the peer, and the standard deviations
\* being 0 for a peer with fewer than two samples.
C9_OneRowPerPeer ==
    (pc \in {"stats_returned", "stats_raised"} /\ result # <<>>) =>
        /\ pc = "stats_returned"
        /\ Len(stats) = Cardinality(PeersOf(result))
        /\ {stats[i].IP_Hostname : i \in 1..Len(stats)} = PeersOf(result)
        /\ \A i \in 1..(Len(stats) - 1) :
              str_less(stats[i].IP_Hostname, stats[i + 1].IP_Hostname)
        /\ \A i \in 1..Len(stats) :
              /\ stats[i].Data_Points = CountOf(result, stats[i].IP_Hostname)
              /\ stats[i].Data_Points < 2 =>
                    /\ stats[i].Delay_StdDev = 0
                    /\ stats[i].Offset_StdDev = 0
                    /\ stats[i].Jitter_StdDev = 0

\* C10: one iteration either leaves data_rows unchanged or appends one
\* complete Record at its end; blank, column-header, separator, short,
\* sentinel and numerically malformed lines change neither data_rows nor
\* current_timestamp; a valid timestamp header changes current_timestamp
\* only; the count reported is the length of the returned sequence.
C10_AppendOnly ==
    /\ [][ ReadStep =>
           /\ \/ data_rows' = data_rows
              \/ /\ Len(data_rows') = Len(data_rows) + 1
                 /\ SubSeq(data_rows', 1, Len(data_rows)) = data_rows
                 /\ DOMAIN data_rows'[Len(data_rows')] = RecordKeys
           /\ (\/ IsBlank(NewLine) \/ IsColumnHeader(NewLine)
               \/ IsSeparator(NewLine) \/ IsShort(NewLine)
               \/ HasSentinelRefid(NewLine) \/ IsNumericallyMalformed(NewLine))
              => (data_rows' = data_rows /\ current_timestamp' = current_timestamp)
           /\ IsValidHeader(NewLine)
              => /\ current_timestamp' = HeaderValue(NewLine)
                 /\ UNCHANGED <<data_rows, origin, pc, result, count, exception, stats>>
         ]_vars
    /\ [][ ~ReadStep => data_rows' = data_rows ]_vars
    /\ [](Returned => (count = Len(result) /\ result = data_rows))

\* Two different Records were appended in file order and returned.
C10_Witness ==
    /\ pc = "returned"
    /\ Len(result) = 2
    /\ result[1] # result[2]
    /\ origin[1] < origin[2]
    /\ count = 2

====
